---- MODULE Spec2Model ----
(***************************************************************************)
(* Model of the palette reference resolution of veneer (src/palette.rs):   *)
(* ColorRef deserialization, validate_palette, resolve_palette with its    *)
(* recursive resolve_path (memo + in-progress stack), lookup_color_ref and *)
(* normalize_hex; the commands that consume the resolved palette; and the  *)
(* template helpers of src/render.rs (with_alpha, rgba, hsla, rgba_floats) *)
(* with hex_to_rgb, which src/show.rs repeats for its swatches.            *)
(*                                                                         *)
(* A string is a sequence of one-character strings, so that split('.'),    *)
(* starts_with('#'), contains('.'), the hex regex and to_uppercase are     *)
(* computed character by character as the code computes them.              *)
(***************************************************************************)
EXTENDS Integers, Sequences, FiniteSets, TLC

\* ------------------------------------------------------------------ bounds
\* At most this many of the four varying slots hold a reference (a value
\* that does not start with '#'); the others hold literals.
MaxRefSlots == 3

\* An alpha argument is a multiple of 1/AlphaDen, from AlphaOver steps below
\* 0.0 to AlphaOver steps above 1.0.
AlphaDen == 20
AlphaOver == 4

\* ----------------------------------------------------------------- strings
Dot == <<".">>

\* The characters of the model in code-point order (String's Ord is bytewise).
Ascii ==
    <<"#", ".", "0", "1", "2", "3", "4", "5", "6", "7", "8", "9",
      "A", "B", "C", "D", "E", "F", "G", "_",
      "a", "b", "c", "d", "e", "f", "g", "h", "i", "k", "l", "m", "n", "o",
      "p", "r", "s", "t", "u", "w", "x", "y">>

Code(c) == CHOOSE i \in 1..Len(Ascii) : Ascii[i] = c

RECURSIVE StrLess(_, _)
StrLess(a, b) ==
    IF b = <<>> THEN FALSE
    ELSE IF a = <<>> THEN TRUE
    ELSE IF Head(a) = Head(b) THEN StrLess(Tail(a), Tail(b))
    ELSE Code(Head(a)) < Code(Head(b))

Last(s) == s[Len(s)]
Front(s) == SubSeq(s, 1, Len(s) - 1)

Contains(s, x) == \E i \in 1..Len(s) : s[i] = x

StartsWith(s, c) == Len(s) >= 1 /\ s[1] = c

\* str::split('.'): the segments between dots; always at least one segment.
RECURSIVE SplitFrom(_, _, _)
SplitFrom(s, i, cur) ==
    IF i > Len(s) THEN <<cur>>
    ELSE IF s[i] = "." THEN <<cur>> \o SplitFrom(s, i + 1, <<>>)
    ELSE SplitFrom(s, i + 1, Append(cur, s[i]))

Split(s) == SplitFrom(s, 1, <<>>)

\* format!("{a}.{b}")
Dotted2(a, b) == a \o Dot \o b
Dotted3(a, b, c) == a \o Dot \o b \o Dot \o c
Dotted4(a, b, c, d) == a \o Dot \o b \o Dot \o c \o Dot \o d

HexDigits ==
    {"0", "1", "2", "3", "4", "5", "6", "7", "8", "9",
     "A", "B", "C", "D", "E", "F", "a", "b", "c", "d", "e", "f"}

\* char::to_uppercase on the characters of the model
UpperChar(c) ==
    CASE c = "a" -> "A" [] c = "b" -> "B" [] c = "c" -> "C" [] c = "d" -> "D"
      [] c = "e" -> "E" [] c = "f" -> "F" [] c = "g" -> "G" [] c = "h" -> "H"
      [] c = "i" -> "I" [] c = "k" -> "K" [] c = "l" -> "L" [] c = "m" -> "M"
      [] c = "n" -> "N" [] c = "o" -> "O" [] c = "p" -> "P" [] c = "r" -> "R"
      [] c = "s" -> "S" [] c = "t" -> "T" [] c = "u" -> "U" [] c = "w" -> "W"
      [] c = "x" -> "X" [] c = "y" -> "Y" [] OTHER -> c

ToUppercase(s) == [i \in 1..Len(s) |-> UpperChar(s[i])]

\* Regex ^#[0-9A-Fa-f]{6}$
IsMatchHex(s) ==
    /\ Len(s) = 7
    /\ s[1] = "#"
    /\ \A i \in 2..7 : s[i] \in HexDigits

\* ------------------------------------------------------------------- words
w_colors == <<"c", "o", "l", "o", "r", "s">>
w_accents == <<"a", "c", "c", "e", "n", "t", "s">>
w_ansi == <<"a", "n", "s", "i">>
w_light == <<"l", "i", "g", "h", "t">>
w_dark == <<"d", "a", "r", "k">>
w_normal == <<"n", "o", "r", "m", "a", "l">>
w_bright == <<"b", "r", "i", "g", "h", "t">>
w_black == <<"b", "l", "a", "c", "k">>
w_red == <<"r", "e", "d">>
w_green == <<"g", "r", "e", "e", "n">>
w_yellow == <<"y", "e", "l", "l", "o", "w">>
w_blue == <<"b", "l", "u", "e">>
w_magenta == <<"m", "a", "g", "e", "n", "t", "a">>
w_cyan == <<"c", "y", "a", "n">>
w_white == <<"w", "h", "i", "t", "e">>

\* The eight slots of an AnsiRow in declaration order.
AnsiColors ==
    <<w_black, w_red, w_green, w_yellow, w_blue, w_magenta, w_cyan, w_white>>

Tones == <<w_light, w_dark>>
Levels == <<w_normal, w_bright>>

\* ---------------------------------------------------------------- ColorRef
HexRef(s) == [tag |-> "Hex", s |-> s]
PathRef(s) == [tag |-> "Path", s |-> s]

\* impl Deserialize for ColorRef
Deserialize(s) == IF StartsWith(s, "#") THEN HexRef(s) ELSE PathRef(s)

\* ------------------------------------------------------------ Result values
Ok(v) == [ok |-> TRUE, val |-> v]
Err(e) == [ok |-> FALSE, err |-> e]

None == [some |-> FALSE]
Some(v) == [some |-> TRUE, val |-> v]

\* Faulty variant: the literal is returned as written, not uppercased.
NormalizeHexBug(raw) ==
    IF ~IsMatchHex(raw) THEN Err([kind |-> "InvalidHex", raw |-> raw])
    ELSE Ok(raw)

normalize_hex(raw) ==
    IF ~IsMatchHex(raw) THEN Err([kind |-> "InvalidHex", raw |-> raw])
    ELSE Ok(ToUppercase(raw))

\* BTreeMap::get
MapGet(m, k) == IF k \in DOMAIN m THEN Some(m[k]) ELSE None

\* AnsiRow field selection by name (the match on `color`)
RowGet(row, color) == IF Contains(AnsiColors, color) THEN Some(row[color]) ELSE None

lookup_color_ref(pal, path) ==
    LET parts == Split(path)
        n == Len(parts)
    IN  IF parts[1] = w_colors THEN
            IF n < 3 THEN None
            ELSE IF n > 3 THEN None
            ELSE IF parts[2] = w_light THEN MapGet(pal.colors.light, parts[3])
            ELSE IF parts[2] = w_dark THEN MapGet(pal.colors.dark, parts[3])
            ELSE None
        ELSE IF parts[1] = w_accents THEN
            IF n < 2 THEN None
            ELSE IF n > 2 THEN None
            ELSE MapGet(pal.accents, parts[2])
        ELSE IF parts[1] = w_ansi THEN
            IF n < 4 THEN None
            ELSE IF n > 4 THEN None
            ELSE IF ~Contains(Tones, parts[2]) THEN None
            ELSE IF ~Contains(Levels, parts[3]) THEN None
            ELSE RowGet(pal.ansi[parts[2]][parts[3]], parts[4])
        ELSE None

\* ----------------------------------------------------------------- Palette
EmptyMap == [k \in {} |-> <<>>]

Put(m, k, v) == [x \in DOMAIN m \cup {k} |-> IF x = k THEN v ELSE m[x]]

\* BTreeMap iteration order: keys ascending
RECURSIVE SortedKeys(_)
SortedKeys(S) ==
    IF S = {} THEN <<>>
    ELSE LET k == CHOOSE x \in S : \A y \in S \ {x} : StrLess(x, y)
         IN  <<k>> \o SortedKeys(S \ {k})

Slot(sect, key, label, cref) ==
    [sect |-> sect, key |-> key, label |-> label, cref |-> cref]

\* for (k, v) in &map { f(&format!("{base}.{k}"), v) }
MapSlots(sect, base, m) ==
    LET ks == SortedKeys(DOMAIN m)
    IN  [i \in 1..Len(ks) |-> Slot(sect, ks[i], Dotted2(base, ks[i]), m[ks[i]])]

\* resolve_row / check_row: the eight fields, black first, white last
RowSlots(sect, base, row) ==
    [i \in 1..8 |->
        Slot(sect, AnsiColors[i], Dotted2(base, AnsiColors[i]), row[AnsiColors[i]])]

\* Faulty variant: the row's first field is not visited.
RowSlotsSkipBlack(sect, base, row) ==
    [i \in 1..7 |->
        Slot(sect, AnsiColors[i + 1], Dotted2(base, AnsiColors[i + 1]),
             row[AnsiColors[i + 1]])]

CheckRowSlots(sect, base, row) == RowSlots(sect, base, row)

\* The order in which validate_palette visits the slots.
ValidateSlots(pal) ==
    MapSlots("colors_light", Dotted2(w_colors, w_light), pal.colors.light)
    \o MapSlots("colors_dark", Dotted2(w_colors, w_dark), pal.colors.dark)
    \o MapSlots("accents", w_accents, pal.accents)
    \o CheckRowSlots("ansi_light_normal", Dotted3(w_ansi, w_light, w_normal),
                     pal.ansi[w_light][w_normal])
    \o CheckRowSlots("ansi_light_bright", Dotted3(w_ansi, w_light, w_bright),
                     pal.ansi[w_light][w_bright])
    \o CheckRowSlots("ansi_dark_normal", Dotted3(w_ansi, w_dark, w_normal),
                     pal.ansi[w_dark][w_normal])
    \o CheckRowSlots("ansi_dark_bright", Dotted3(w_ansi, w_dark, w_bright),
                     pal.ansi[w_dark][w_bright])

\* Faulty variant: the accents are resolved before the colors.
ResolveSlotsAccentsFirst(pal) ==
    MapSlots("accents", w_accents, pal.accents)
    \o MapSlots("colors_light", Dotted2(w_colors, w_light), pal.colors.light)
    \o MapSlots("colors_dark", Dotted2(w_colors, w_dark), pal.colors.dark)
    \o RowSlots("ansi_light_normal", Dotted3(w_ansi, w_light, w_normal),
                pal.ansi[w_light][w_normal])
    \o RowSlots("ansi_light_bright", Dotted3(w_ansi, w_light, w_bright),
                pal.ansi[w_light][w_bright])
    \o RowSlots("ansi_dark_normal", Dotted3(w_ansi, w_dark, w_normal),
                pal.ansi[w_dark][w_normal])
    \o RowSlots("ansi_dark_bright", Dotted3(w_ansi, w_dark, w_bright),
                pal.ansi[w_dark][w_bright])

\* The order in which resolve_palette resolves the top-level slots.
ResolveSlots(pal) ==
    MapSlots("colors_light", Dotted2(w_colors, w_light), pal.colors.light)
    \o MapSlots("colors_dark", Dotted2(w_colors, w_dark), pal.colors.dark)
    \o MapSlots("accents", w_accents, pal.accents)
    \o RowSlots("ansi_light_normal", Dotted3(w_ansi, w_light, w_normal),
                pal.ansi[w_light][w_normal])
    \o RowSlots("ansi_light_bright", Dotted3(w_ansi, w_light, w_bright),
                pal.ansi[w_light][w_bright])
    \o RowSlots("ansi_dark_normal", Dotted3(w_ansi, w_dark, w_normal),
                pal.ansi[w_dark][w_normal])
    \o RowSlots("ansi_dark_bright", Dotted3(w_ansi, w_dark, w_bright),
                pal.ansi[w_dark][w_bright])

\* ---------------------------------------------------------------- Validator
check_ref(label, cref) ==
    IF cref.tag = "Hex" THEN
        IF IsMatchHex(cref.s) THEN Ok(TRUE)
        ELSE Err([kind |-> "InvalidHexColor", label |-> label, value |-> cref.s])
    ELSE
        IF Contains(cref.s, ".") THEN Ok(TRUE)
        ELSE Err([kind |-> "MalformedPath", label |-> label, value |-> cref.s])

\* f(label, slot)? for each slot in order: the first error ends the pass.
RECURSIVE CheckFrom(_, _)
CheckFrom(slots, i) ==
    IF i > Len(slots) THEN Ok(TRUE)
    ELSE LET r == check_ref(slots[i].label, slots[i].cref)
         IN  IF r.ok THEN CheckFrom(slots, i + 1) ELSE r

validate_palette(pal) == CheckFrom(ValidateSlots(pal), 1)

\* ------------------------------------------------------------ input palettes
Hx(a, b, c, d, e, f) == <<"#", a, b, c, d, e, f>>

k_p == <<"p">>
k_w == <<"w">>
k_ab == <<"a", ".", "b">>

\* The four slots whose value varies, by canonical path.
PathA == Dotted3(w_colors, w_light, k_p)
PathB == Dotted3(w_colors, w_dark, k_p)
PathC == Dotted2(w_accents, k_w)
PathD == Dotted4(w_ansi, w_light, w_normal, w_black)

SlotRefs == {PathA, PathB, PathC, PathD}

\* Raw strings a palette file can give each varying slot: a valid literal, an
\* invalid literal, a reference to any of the four slots, two references that
\* lookup_color_ref cannot resolve, and a reference without a dot.
ValuesA ==
    SlotRefs \cup
    { Hx("1", "a", "2", "b", "3", "c"),
      Hx("G", "G", "G", "G", "G", "G"),
      Dotted3(w_colors, w_light, <<"x">>),
      Dotted2(w_colors, w_light),
      <<"c", "o", "l", "o", "r", "s", "_", "l", "i", "g", "h", "t", "_", "p">> }

ValuesB ==
    SlotRefs \cup
    { Hx("A", "A", "B", "B", "C", "C"),
      <<"#", "1", "2", "3", "4", "5">>,
      Dotted3(w_colors, <<"m", "i", "d">>, k_p),
      Dotted4(w_colors, w_dark, k_p, k_p),
      <<>> }

ValuesC ==
    SlotRefs \cup
    { Hx("c", "0", "f", "f", "e", "e"),
      <<"#", "1", "2", "3", "4", "5", "6", "7">>,
      Dotted2(w_accents, k_ab),
      Dotted2(<<"t", "h", "e", "m", "e">>, k_w),
      w_accents }

ValuesD ==
    SlotRefs \cup
    { Hx("0", "0", "a", "a", "0", "F"),
      Hx("a", "b", "c", "d", "e", "g"),
      Dotted4(w_ansi, w_light, w_normal, <<"p", "i", "n", "k">>),
      Dotted3(w_ansi, w_light, w_black),
      w_black }

\* The literal of every ansi slot that does not vary.
AnsiLiteral(color) ==
    CASE color = w_black -> Hx("3", "3", "3", "3", "3", "3")
      [] color = w_red -> Hx("f", "f", "4", "4", "4", "4")
      [] color = w_green -> Hx("4", "4", "F", "F", "4", "4")
      [] color = w_yellow -> Hx("f", "f", "F", "F", "4", "4")
      [] color = w_blue -> Hx("4", "4", "4", "4", "F", "F")
      [] color = w_magenta -> Hx("F", "F", "4", "4", "f", "f")
      [] color = w_cyan -> Hx("4", "4", "f", "f", "f", "f")
      [] OTHER -> Hx("F", "F", "F", "F", "F", "F")

AnsiColorSet == {AnsiColors[i] : i \in 1..8}

\* toml::from_str: every leaf string goes through ColorRef's Deserialize.
MakePalette(a, b, c, d) ==
    [ colors |-> [ light |-> (k_p :> Deserialize(a)),
                   dark |-> (k_p :> Deserialize(b)) ],
      accents |-> (k_w :> Deserialize(c))
                  @@ (k_ab :> Deserialize(Hx("1", "2", "3", "4", "5", "6"))),
      ansi |-> [ t \in {w_light, w_dark} |->
                 [ l \in {w_normal, w_bright} |->
                   [ col \in AnsiColorSet |->
                       IF t = w_light /\ l = w_normal /\ col = w_black
                       THEN Deserialize(d)
                       ELSE Deserialize(AnsiLiteral(col)) ] ] ] ]

NumRefs(a, b, c, d) ==
    Cardinality({i \in 1..4 : ~StartsWith(<<a, b, c, d>>[i], "#")})

Palettes ==
    { MakePalette(a, b, c, d) :
        <<a, b, c, d>> \in
            { q \in ValuesA \X ValuesB \X ValuesC \X ValuesD :
                NumRefs(q[1], q[2], q[3], q[4]) <= MaxRefSlots } }

\* ------------------------------------------------------------ program state
VARIABLES
    palette,    \* the deserialized Palette
    order,      \* the top-level slots in the order resolve_palette visits them
    caller,     \* "command": build/check/show via load_palette;
                \* "test": resolve_palette called on the deserialized palette
    validated,  \* validate_palette has accepted the palette
    pc,         \* position in the run
    idx,        \* index of the top-level slot being resolved
    arg,        \* `path` argument of the resolve_path call just entered
    val,        \* value being returned
    frames,     \* suspended resolve_path calls (path and its ColorRef)
    memo,       \* HashMap<String, String>
    stack,      \* Vec<String> of in-progress paths
    out,        \* colors_light, colors_dark, accents and the ansi rows so far
    result,     \* what the run returned
    top_work,   \* label -> times the top-level pass computed that slot
    path_work,  \* path -> times resolve_path looked it up and computed it
    consumed,   \* what the command did with the ResolvedPalette
    call,       \* a template helper call: function name and its arguments
    rendered    \* what the helper call returned

vars ==
    <<palette, order, caller, validated, pc, idx, arg, val, frames, memo, stack, out,
      result, top_work, path_work, consumed, call, rendered>>

NoResult == [kind |-> "None"]

NoCall == [fn |-> "none"]

EmptyOut ==
    [ colors_light |-> EmptyMap, colors_dark |-> EmptyMap, accents |-> EmptyMap,
      ansi_light_normal |-> EmptyMap, ansi_light_bright |-> EmptyMap,
      ansi_dark_normal |-> EmptyMap, ansi_dark_bright |-> EmptyMap ]

\* The locals of one resolve_palette run, as a record.
StartRun ==
    [ pc |-> "slot", idx |-> 1, arg |-> <<>>, val |-> <<>>, frames |-> <<>>,
      memo |-> EmptyMap, stack |-> <<>>, out |-> EmptyOut, result |-> NoResult,
      top_work |-> EmptyMap, path_work |-> EmptyMap ]

Run ==
    [ pc |-> pc, idx |-> idx, arg |-> arg, val |-> val, frames |-> frames,
      memo |-> memo, stack |-> stack, out |-> out, result |-> result,
      top_work |-> top_work, path_work |-> path_work ]

Becomes(r) ==
    /\ pc' = r.pc
    /\ idx' = r.idx
    /\ arg' = r.arg
    /\ val' = r.val
    /\ frames' = r.frames
    /\ memo' = r.memo
    /\ stack' = r.stack
    /\ out' = r.out
    /\ result' = r.result
    /\ top_work' = r.top_work
    /\ path_work' = r.path_work

Count(m, k) == IF k \in DOMAIN m THEN m[k] ELSE 0
Bump(m, k) == Put(m, k, Count(m, k) + 1)

\* ResolvedPalette { colors, accents, ansi } built from the locals
ResolvedPalette(o) ==
    [ colors |-> [light |-> o.colors_light, dark |-> o.colors_dark],
      accents |-> o.accents,
      ansi |-> [ light |-> [normal |-> o.ansi_light_normal,
                            bright |-> o.ansi_light_bright],
                 dark |-> [normal |-> o.ansi_dark_normal,
                           bright |-> o.ansi_dark_bright] ] ]

\* ---------------------------------------------------------- resolve_palette
\* An error leaves resolve_palette through `?`: nothing is popped or stored.
\* ctx is the chain of with_context layers, outermost first.
Fail(r, ctx, cause) ==
    [r EXCEPT !.pc = "done",
              !.result = [kind |-> "Err", ctx |-> ctx, cause |-> cause]]

\* .with_context(|| format!("resolving {label} -> {path}"))
ResolvingCtx(slot) == <<[label |-> slot.label, path |-> slot.cref.s]>>

\* Faulty variant: the colors.dark loop inserts into colors_light.
InsertDarkIntoLight(r, slot, v) ==
    LET sect == IF slot.sect = "colors_dark" THEN "colors_light" ELSE slot.sect
    IN  [r EXCEPT !.out = [@ EXCEPT ![sect] = Put(@, slot.key, v)],
                  !.idx = @ + 1,
                  !.pc = "slot"]

\* map.insert(k.clone(), value) / the field of the ResolvedAnsiRow
Insert(r, slot, v) ==
    [r EXCEPT !.out = [@ EXCEPT ![slot.sect] = Put(@, slot.key, v)],
              !.idx = @ + 1,
              !.pc = "slot"]

\* resolve_color on ColorRef::Hex(raw): normalize_hex(raw), no context added
resolve_color_hex(ord, r) ==
    LET slot == ord[r.idx]
        n == normalize_hex(slot.cref.s)
        r1 == [r EXCEPT !.top_work = Bump(@, slot.label)]
    IN  IF n.ok THEN Insert(r1, slot, n.val)
        ELSE Fail(r1, <<>>, n.err)

\* resolve_color on ColorRef::Path(path): call resolve_path(palette, path, ..)
resolve_color_path(ord, r) ==
    LET slot == ord[r.idx]
    IN  [r EXCEPT !.top_work = Bump(@, slot.label),
                  !.pc = "call",
                  !.arg = slot.cref.s]

\* Faulty variant: the memo is keyed by the last segment of the path.
MemoKeyLastSegment(path) == Last(Split(path))

\* The key under which resolve_path stores and finds a path in the memo.
MemoKey(path) == path

\* A resolve_path call returns v: to the suspended caller, which goes on to
\* pop, or to resolve_color when no call is suspended.
Return(r, v) ==
    [r EXCEPT !.val = v,
              !.pc = IF r.frames = <<>> THEN "top" ELSE "pop"]

\* if let Some(val) = memo.get(path) { return Ok(val.clone()) }
memo_hit(r) == Return(r, r.memo[MemoKey(r.arg)])

\* Faulty variant: a path found on the stack is given a placeholder value.
CycleReturnsPlaceholder(ord, r) ==
    Return(r, Hx("0", "0", "0", "0", "0", "0"))

\* Faulty variant: the chain is the stack alone, without the repeated path.
CycleChainNoPath(ord, r) ==
    Fail(r, ResolvingCtx(ord[r.idx]), [kind |-> "Cycle", chain |-> r.stack])

\* bail!("cycle detected: {cycle} -> {path}") with cycle = stack.join(" -> ")
cycle_detected(ord, r) ==
    Fail(r, ResolvingCtx(ord[r.idx]),
         [kind |-> "Cycle", chain |-> Append(r.stack, r.arg)])

\* Faulty variant: the error names the top-level slot's reference, not the path
\* that was not found.
MissingNamesSlotRef(ord, r) ==
    Fail(r, ResolvingCtx(ord[r.idx]),
         [kind |-> "MissingPath", path |-> ord[r.idx].cref.s])

\* lookup_color_ref(..) is None: "missing path '{path}'; expected ..."
missing_path(ord, r) ==
    Fail(r, ResolvingCtx(ord[r.idx]), [kind |-> "MissingPath", path |-> r.arg])

\* Faulty variant: the path is entered in the memo when it is pushed.
PushMemoizesEarly(pal, r) ==
    [r EXCEPT !.stack = Append(@, r.arg),
              !.frames = Append(@, [path |-> r.arg,
                                    cref |-> lookup_color_ref(pal, r.arg).val]),
              !.memo = Put(@, r.arg, Hx("0", "0", "0", "0", "0", "0")),
              !.path_work = Bump(@, r.arg),
              !.pc = "match"]

\* stack.push(path.to_string()), then the match on cref
push_path(pal, r) ==
    [r EXCEPT !.stack = Append(@, r.arg),
              !.frames = Append(@, [path |-> r.arg,
                                    cref |-> lookup_color_ref(pal, r.arg).val]),
              !.path_work = Bump(@, r.arg),
              !.pc = "match"]

\* ColorRef::Hex(raw) => normalize_hex(raw)?
match_hex(ord, r) ==
    LET n == normalize_hex(Last(r.frames).cref.s)
    IN  IF n.ok THEN [r EXCEPT !.val = n.val, !.pc = "pop"]
        ELSE Fail(r, ResolvingCtx(ord[r.idx]), n.err)

\* ColorRef::Path(next) => resolve_path(palette, next, memo, stack)?
match_path(r) ==
    [r EXCEPT !.pc = "call", !.arg = Last(r.frames).cref.s]

\* Faulty variant: the memo receives the ColorRef's own string, not the resolved value.
PopMemoizeRaw(r) ==
    LET f == Last(r.frames)
        r1 == [r EXCEPT !.stack = Front(@),
                        !.memo = Put(@, MemoKey(f.path), f.cref.s),
                        !.frames = Front(@)]
    IN  Return(r1, r.val)

\* Faulty variant: the resolved value is returned but never memoized.
PopNoMemo(r) ==
    LET r1 == [r EXCEPT !.stack = Front(@), !.frames = Front(@)]
    IN  Return(r1, r.val)

\* Faulty variant: the path is memoized but stays on the stack.
PopKeepsStack(r) ==
    LET f == Last(r.frames)
        r1 == [r EXCEPT !.memo = Put(@, MemoKey(f.path), r.val),
                        !.frames = Front(@)]
    IN  Return(r1, r.val)

\* stack.pop(); memo.insert(path.to_string(), resolved.clone()); Ok(resolved)
pop_and_memoize(r) ==
    LET f == Last(r.frames)
        r1 == [r EXCEPT !.stack = Front(@),
                        !.memo = Put(@, MemoKey(f.path), r.val),
                        !.frames = Front(@)]
    IN  Return(r1, r.val)

\* the closure's caller stores the value resolve_path returned
insert_resolved(ord, r) == Insert(r, ord[r.idx], r.val)

\* Ok(ResolvedPalette { .. })
finish(r) ==
    [r EXCEPT !.pc = "done",
              !.result = [kind |-> "Ok", palette |-> ResolvedPalette(r.out)]]

InMemo(r) == MemoKey(r.arg) \in DOMAIN r.memo

\* Faulty variant: only the path on top of the stack is compared.
OnStackTopOnly(r) == r.stack # <<>> /\ Last(r.stack) = r.arg

\* stack.contains(&path.to_string())
OnStack(r) == Contains(r.stack, r.arg)

\* One step of a resolve_palette run over the slot order ord.
Step(pal, ord, r) ==
    IF r.pc = "slot" THEN
        IF r.idx > Len(ord) THEN finish(r)
        ELSE IF ord[r.idx].cref.tag = "Hex" THEN resolve_color_hex(ord, r)
        ELSE resolve_color_path(ord, r)
    ELSE IF r.pc = "call" THEN
        IF InMemo(r) THEN memo_hit(r)
        ELSE IF OnStack(r) THEN cycle_detected(ord, r)
        ELSE IF ~lookup_color_ref(pal, r.arg).some THEN missing_path(ord, r)
        ELSE push_path(pal, r)
    ELSE IF r.pc = "match" THEN
        IF Last(r.frames).cref.tag = "Hex" THEN match_hex(ord, r)
        ELSE match_path(r)
    ELSE IF r.pc = "pop" THEN pop_and_memoize(r)
    ELSE IF r.pc = "top" THEN insert_resolved(ord, r)
    ELSE r

RECURSIVE RunToEnd(_, _, _)
RunToEnd(pal, ord, r) ==
    IF r.pc = "done" THEN r ELSE RunToEnd(pal, ord, Step(pal, ord, r))

\* resolve_palette as a function of the palette and the slot order
resolve_palette(pal, ord) == RunToEnd(pal, ord, StartRun).result

Order == order

\* ------------------------------------------------------------------ actions
Init ==
    /\ palette \in Palettes
    /\ order = ResolveSlots(palette)
    /\ caller \in {"command", "test"}
    /\ validated = FALSE
    /\ pc = IF caller = "command" THEN "load" ELSE "slot"
    /\ idx = 1
    /\ arg = <<>>
    /\ val = <<>>
    /\ frames = <<>>
    /\ memo = EmptyMap
    /\ stack = <<>>
    /\ out = EmptyOut
    /\ result = NoResult
    /\ top_work = EmptyMap
    /\ path_work = EmptyMap
    /\ consumed = "nothing"
    /\ call = NoCall
    /\ rendered = NoResult

\* Faulty variant: the parsed palette goes to resolution unvalidated.
LoadPaletteSkipsValidation ==
    /\ pc = "load"
    /\ pc' = "slot"
    /\ UNCHANGED <<palette, order, caller, validated, idx, arg, val, frames, memo,
                   stack, out, result, top_work, path_work, consumed, call,
                   rendered>>

\* load_palette: validate_palette(&palette)? after parsing
LoadPalette ==
    /\ pc = "load"
    /\ LET v == validate_palette(palette)
       IN  IF v.ok
           THEN /\ validated' = TRUE
                /\ pc' = "slot"
                /\ result' = result
           ELSE /\ validated' = FALSE
                /\ pc' = "done"
                /\ result' = [kind |-> "Err", ctx |-> <<>>, cause |-> v.err]
    /\ UNCHANGED <<palette, order, caller, idx, arg, val, frames, memo, stack, out,
                   top_work, path_work, consumed, call, rendered>>

Keep == UNCHANGED <<palette, order, caller, validated, consumed, call, rendered>>

ResolveColorHex ==
    /\ pc = "slot" /\ idx <= Len(Order) /\ Order[idx].cref.tag = "Hex"
    /\ Becomes(resolve_color_hex(Order, Run))
    /\ Keep

ResolveColorPath ==
    /\ pc = "slot" /\ idx <= Len(Order) /\ Order[idx].cref.tag = "Path"
    /\ Becomes(resolve_color_path(Order, Run))
    /\ Keep

MemoHit ==
    /\ pc = "call" /\ InMemo(Run)
    /\ Becomes(memo_hit(Run))
    /\ Keep

CycleDetected ==
    /\ pc = "call" /\ ~InMemo(Run) /\ OnStack(Run)
    /\ Becomes(cycle_detected(Order, Run))
    /\ Keep

MissingPath ==
    /\ pc = "call" /\ ~InMemo(Run) /\ ~OnStack(Run)
    /\ ~lookup_color_ref(palette, arg).some
    /\ Becomes(missing_path(Order, Run))
    /\ Keep

PushPath ==
    /\ pc = "call" /\ ~InMemo(Run) /\ ~OnStack(Run)
    /\ lookup_color_ref(palette, arg).some
    /\ Becomes(push_path(palette, Run))
    /\ Keep

MatchHex ==
    /\ pc = "match" /\ Last(frames).cref.tag = "Hex"
    /\ Becomes(match_hex(Order, Run))
    /\ Keep

MatchPath ==
    /\ pc = "match" /\ Last(frames).cref.tag = "Path"
    /\ Becomes(match_path(Run))
    /\ Keep

PopAndMemoize ==
    /\ pc = "pop"
    /\ Becomes(pop_and_memoize(Run))
    /\ Keep

InsertResolved ==
    /\ pc = "top"
    /\ Becomes(insert_resolved(Order, Run))
    /\ Keep

Finish ==
    /\ pc = "slot" /\ idx > Len(Order)
    /\ Becomes(finish(Run))
    /\ Keep

\* What follows `let resolved = resolve_palette(&palette)?` in a command.
\* The three commands share everything before it, so which command is
\* running is drawn here.
Consume(what) ==
    /\ pc = "done" /\ caller = "command" /\ result.kind = "Ok"
    /\ consumed' = what
    /\ pc' = "exit"
    /\ UNCHANGED <<palette, order, caller, validated, idx, arg, val, frames, memo,
                   stack, out, result, top_work, path_work, call, rendered>>

\* render::build: build_context, collect the templates, render_one each
\* (fs::write); a template that fails to render ends the command.
Build == \E rendered_ok \in BOOLEAN :
    Consume(IF rendered_ok THEN "files written" ELSE "render failed")

\* render::check_single: render one template to stdout or to --out
CheckSingle == Consume("template rendered")

\* show::run: print_palette
Show == Consume("palette printed")

Next ==
    \/ LoadPalette
    \/ ResolveColorHex
    \/ ResolveColorPath
    \/ MemoHit
    \/ CycleDetected
    \/ MissingPath
    \/ PushPath
    \/ MatchHex
    \/ MatchPath
    \/ PopAndMemoize
    \/ InsertResolved
    \/ Finish
    \/ Build
    \/ CheckSingle
    \/ Show

Spec == Init /\ [][Next]_vars

\* ------------------------------------------------------------ template helpers
\* A character of two UTF-8 bytes (U+00E9); every other character of the
\* model is one byte.
TwoByteChar == "U+00E9"

Utf8Len(c) == IF c = TwoByteChar THEN 2 ELSE 1

\* str::len: the length in bytes
RECURSIVE ByteLen(_)
ByteLen(s) == IF s = <<>> THEN 0 ELSE Utf8Len(Head(s)) + ByteLen(Tail(s))

\* str::is_char_boundary
IsCharBoundary(s, i) == \E k \in 0..Len(s) : ByteLen(SubSeq(s, 1, k)) = i

\* &s[a..b]: the characters between two byte offsets; panics when an offset
\* falls inside a character.
ByteSlice(s, a, b) ==
    IF ~IsCharBoundary(s, a) \/ ~IsCharBoundary(s, b) THEN [panic |-> TRUE]
    ELSE LET ka == CHOOSE k \in 0..Len(s) : ByteLen(SubSeq(s, 1, k)) = a
             kb == CHOOSE k \in 0..Len(s) : ByteLen(SubSeq(s, 1, k)) = b
         IN  [panic |-> FALSE, s |-> SubSeq(s, ka + 1, kb)]

UpperHex ==
    <<"0", "1", "2", "3", "4", "5", "6", "7", "8", "9",
      "A", "B", "C", "D", "E", "F">>

\* char::to_digit(16)
HexVal(c) == (CHOOSE i \in 1..16 : UpperHex[i] = UpperChar(c)) - 1

RECURSIVE ParseDigits(_, _)
ParseDigits(digits, acc) ==
    IF digits = <<>> THEN Some(acc)
    ELSE IF Head(digits) \notin HexDigits THEN None
    ELSE IF 16 * acc + HexVal(Head(digits)) > 255 THEN None
    ELSE ParseDigits(Tail(digits), 16 * acc + HexVal(Head(digits)))

\* u8::from_str_radix(src, 16): empty input and a lone sign are errors, one
\* leading '+' is accepted, '-' is not a digit of an unsigned type.
from_str_radix(src) ==
    IF src = <<>> THEN None
    ELSE IF src = <<"+">> \/ src = <<"-">> THEN None
    ELSE ParseDigits(IF Head(src) = "+" THEN Tail(src) ELSE src, 0)

Panicked == [some |-> FALSE, panic |-> TRUE]

\* One channel: u8::from_str_radix(&hex[a..b], 16).ok()
Channel(hex, a, b) ==
    LET sl == ByteSlice(hex, a, b)
    IN  IF sl.panic THEN Panicked ELSE from_str_radix(sl.s)

\* hex_to_rgb (render.rs, and the same function in show.rs)
hex_to_rgb(hex) ==
    IF ByteLen(hex) # 7 \/ ~StartsWith(hex, "#") THEN None
    ELSE LET r == Channel(hex, 1, 3)
             g == Channel(hex, 3, 5)
             b == Channel(hex, 5, 7)
         IN  IF ~r.some THEN r
             ELSE IF ~g.some THEN g
             ELSE IF ~b.some THEN b
             ELSE Some(<<r.val, g.val, b.val>>)

\* {:02X}
HexByte(n) == <<UpperHex[(n \div 16) + 1], UpperHex[(n % 16) + 1]>>

\* Faulty variant: the alpha byte is truncated, not rounded.
Truncate255(n) == (255 * n) \div AlphaDen

\* (alpha * 255.0).round() as u8 for alpha = n / AlphaDen in [0, 1]: round
\* goes to the nearest integer, a half away from zero.
Round255(n) == (2 * 255 * n + AlphaDen) \div (2 * AlphaDen)

\* (0.0..=1.0).contains(&alpha)
AlphaInRange(n) == 0 <= n /\ n <= AlphaDen

\* A helper that panicked returned nothing.
Panic == [ok |-> FALSE, panic |-> TRUE]

with_alpha_hex(hex, n) ==
    IF ~AlphaInRange(n) THEN Err([kind |-> "AlphaOutOfRange"])
    ELSE LET rgb == hex_to_rgb(hex)
         IN  IF "panic" \in DOMAIN rgb THEN Panic
             ELSE IF ~rgb.some THEN Err([kind |-> "InvalidHexColor", hex |-> hex])
             ELSE Ok(<<"#">> \o HexByte(rgb.val[1]) \o HexByte(rgb.val[2])
                       \o HexByte(rgb.val[3]) \o HexByte(Round255(n)))

\* expect_string / expect_number: the argument, or an error when it is
\* missing or of another type
expect_arg(a, key) ==
    IF a.some THEN Ok(a.val) ELSE Err([kind |-> "MissingArg", key |-> key])

\* The first lines of every helper: the color, then the alpha
Args(c) ==
    LET color == expect_arg(c.color, "color")
        alpha == expect_arg(c.alpha, "alpha")
    IN  IF ~color.ok THEN color
        ELSE IF ~alpha.ok THEN alpha
        ELSE Ok([color |-> color.val, alpha |-> alpha.val])

\* hex_to_rgb(&color).ok_or_else(|| "invalid hex color: {color}")?
RgbOf(color) ==
    LET rgb == hex_to_rgb(color)
    IN  IF "panic" \in DOMAIN rgb THEN Panic
        ELSE IF ~rgb.some THEN Err([kind |-> "InvalidHexColor", hex |-> color])
        ELSE Ok(rgb.val)

\* A number as format! is given it; the digits of {:.3} and {:.6} are not
\* expanded.
Num(n, d, prec) == [num |-> n, den |-> d, prec |-> prec]

with_alpha(c) ==
    LET a == Args(c)
    IN  IF ~a.ok THEN a ELSE with_alpha_hex(a.val.color, a.val.alpha)

\* format!("rgba({r}, {g}, {b}, {alpha:.3})")
rgba(c) ==
    LET a == Args(c)
        rgb == RgbOf(a.val.color)
    IN  IF ~a.ok THEN a
        ELSE IF ~rgb.ok THEN rgb
        ELSE Ok(<<"rgba(", rgb.val[1], rgb.val[2], rgb.val[3],
                  Num(a.val.alpha, AlphaDen, 3), ")">>)

\* format!("hsla({h:.3}, {s:.3}, {l:.3}, {alpha:.3})") with
\* (h, s, l) = rgb_to_hsl(r, g, b), a total function of the three channels
hsla(c) ==
    LET a == Args(c)
        rgb == RgbOf(a.val.color)
    IN  IF ~a.ok THEN a
        ELSE IF ~rgb.ok THEN rgb
        ELSE Ok(<<"hsla(", [rgb_to_hsl |-> rgb.val],
                  Num(a.val.alpha, AlphaDen, 3), ")">>)

\* format!("{r:.6} {g:.6} {b:.6} {alpha:.6}") with each channel / 255.0
rgba_floats(c) ==
    LET a == Args(c)
        rgb == RgbOf(a.val.color)
    IN  IF ~a.ok THEN a
        ELSE IF ~rgb.ok THEN rgb
        ELSE Ok(<<Num(rgb.val[1], 255, 6), Num(rgb.val[2], 255, 6),
                  Num(rgb.val[3], 255, 6), Num(a.val.alpha, AlphaDen, 6)>>)

\* show.rs swatch: the color as background, white text on a dark color and
\* black on a light one; the string itself when it is no color.
swatch(c) ==
    LET hex == c.color.val
        rgb == hex_to_rgb(hex)
    IN  IF "panic" \in DOMAIN rgb THEN Panic
        ELSE IF ~rgb.some THEN Ok(hex)
        ELSE LET dark == 299 * rgb.val[1] + 587 * rgb.val[2] + 114 * rgb.val[3]
                            < 127500
             IN  Ok(<<"bg", rgb.val[1], rgb.val[2], rgb.val[3],
                      "fg", IF dark THEN 255 ELSE 0>>)

\* The color strings templates and palettes hand to the helpers.
HelperColors ==
    { Hx("A", "1", "B", "2", "C", "3"), Hx("0", "0", "0", "0", "0", "0"),
      Hx("f", "f", "f", "f", "f", "f"), Hx("a", "B", "c", "D", "e", "F"),
      Hx("7", "f", "7", "F", "8", "0"),
      <<"1", "2", "3", "4", "5", "6">>, <<"#", "f", "f", "f", "f">>,
      <<"#", "1", "2", "3", "4", "5", "6", "7">>, <<>>,
      <<"+", "1", "2", "3", "4", "5", "6">>,
      Hx("G", "G", "G", "G", "G", "G"), Hx("1", "2", "3", "4", "5", "g"),
      Hx("+", "1", "+", "2", "+", "3"), Hx("-", "1", "-", "2", "-", "3"),
      Hx("1", "+", "2", "3", "4", "5"), Hx("1", "2", "3", "4", "+", "F"),
      <<"#", TwoByteChar, "1", "2", "3", "4">>,
      <<"#", "1", TwoByteChar, "2", "3", "4">>,
      <<"#", "1", "2", "3", TwoByteChar, "4">>,
      Hx("1", "2", "3", "4", "5", TwoByteChar) }

Alphas == (0 - AlphaOver)..(AlphaDen + AlphaOver)

TemplateHelpers == {"with_alpha", "rgba", "hsla", "rgba_floats"}

HelperCalls ==
    [fn : TemplateHelpers,
     color : {None} \cup {Some(h) : h \in HelperColors},
     alpha : {None} \cup {Some(n) : n \in Alphas}]
    \cup [fn : {"swatch"}, color : {Some(h) : h \in HelperColors}, alpha : {None}]

\* A helper is called once the palette is resolved, so the resolution
\* variables keep the values of a finished run.
HelperInit ==
    /\ rendered = NoResult
    /\ pc = "render"
    /\ caller = "template"
    /\ palette = MakePalette(Hx("A", "1", "B", "2", "C", "3"),
                             Hx("0", "0", "0", "0", "0", "0"),
                             Hx("f", "f", "f", "f", "f", "f"),
                             Hx("a", "B", "c", "D", "e", "F"))
    /\ order = ResolveSlots(palette)
    /\ validated = validate_palette(palette).ok
    /\ result = resolve_palette(palette, order)
    /\ idx = Len(order) + 1
    /\ arg = <<>>
    /\ val = <<>>
    /\ frames = <<>>
    /\ memo = EmptyMap
    /\ stack = <<>>
    /\ out = EmptyOut
    /\ top_work = EmptyMap
    /\ path_work = EmptyMap
    /\ consumed = "nothing"
    /\ call \in HelperCalls

Helper(fn, value) ==
    /\ pc = "render" /\ call.fn = fn
    /\ rendered' = value
    /\ pc' = "rendered"
    /\ UNCHANGED <<palette, order, caller, validated, idx, arg, val, frames, memo,
                   stack, out, result, top_work, path_work, consumed, call>>

WithAlpha == Helper("with_alpha", with_alpha(call))

Rgba == Helper("rgba", rgba(call))

Hsla == Helper("hsla", hsla(call))

RgbaFloats == Helper("rgba_floats", rgba_floats(call))

Swatch == Helper("swatch", swatch(call))

HelperNext ==
    \/ WithAlpha
    \/ Rgba
    \/ Hsla
    \/ RgbaFloats
    \/ Swatch

HelperSpec == HelperInit /\ [][HelperNext]_vars

\* ---------------------------------------------------- vocabulary of the claims
ResolveErrors == {"InvalidHex", "MissingPath", "Cycle"}

\* resolve_palette has returned (a validation error of load_palette is not
\* a return of resolve_palette).
ResolveReturned ==
    pc = "done" /\ (result.kind = "Ok" \/ result.cause.kind \in ResolveErrors)

ResolveFailed ==
    pc = "done" /\ result.kind = "Err" /\ result.cause.kind \in ResolveErrors

ResolveSucceeded == pc = "done" /\ result.kind = "Ok"

\* Where following references from a ColorRef ends: at a literal, at a path
\* lookup_color_ref does not find, or at a path already visited.
RECURSIVE Chase(_, _, _)
Chase(pal, cref, seen) ==
    IF cref.tag = "Hex" THEN [kind |-> "literal", s |-> cref.s]
    ELSE IF cref.s \in seen THEN [kind |-> "cycle", path |-> cref.s]
    ELSE LET l == lookup_color_ref(pal, cref.s)
         IN  IF ~l.some THEN [kind |-> "missing", path |-> cref.s]
             ELSE Chase(pal, l.val, seen \cup {cref.s})

\* The paths visited from a ColorRef, in order, up to the end of the chase.
RECURSIVE Hops(_, _, _)
Hops(pal, cref, seen) ==
    IF cref.tag = "Hex" \/ cref.s \in seen THEN <<>>
    ELSE LET l == lookup_color_ref(pal, cref.s)
         IN  IF ~l.some THEN <<cref.s>>
             ELSE <<cref.s>> \o Hops(pal, l.val, seen \cup {cref.s})

End(slot) == Chase(palette, slot.cref, {})

GoodChain(slot) == End(slot).kind = "literal" /\ IsMatchHex(End(slot).s)

\* The value the ResolvedPalette holds for a top-level slot.
ResolvedAt(rp, slot) ==
    CASE slot.sect = "colors_light" -> rp.colors.light[slot.key]
      [] slot.sect = "colors_dark" -> rp.colors.dark[slot.key]
      [] slot.sect = "accents" -> rp.accents[slot.key]
      [] slot.sect = "ansi_light_normal" -> rp.ansi.light.normal[slot.key]
      [] slot.sect = "ansi_light_bright" -> rp.ansi.light.bright[slot.key]
      [] slot.sect = "ansi_dark_normal" -> rp.ansi.dark.normal[slot.key]
      [] OTHER -> rp.ansi.dark.bright[slot.key]

IsStored(slot) == slot.key \in DOMAIN out[slot.sect]

SlotIndexes == 1..Len(Order)

\* '#' followed by six uppercase hex digits
IsCanonicalHex(s) ==
    /\ Len(s) = 7
    /\ s[1] = "#"
    /\ \A i \in 2..7 :
         s[i] \in {"0", "1", "2", "3", "4", "5", "6", "7", "8", "9",
                   "A", "B", "C", "D", "E", "F"}

\* ---------------------------------------------------------------------- C1
\* C1: a slot whose reference chain ends, after any number of hops and
\* without revisiting a path, at a literal L of the form #hhhhhh is given
\* the value uppercase(L): that is the value stored for it as soon as it is
\* resolved and the value in the returned ResolvedPalette, and resolution
\* never fails at such a slot. A slot that is itself a literal is the case
\* of zero hops.
C1_ChainResolvesToUppercase ==
    \A i \in SlotIndexes :
        LET slot == Order[i]
            e == End(slot)
        IN  (e.kind = "literal" /\ IsMatchHex(e.s)) =>
              /\ IsStored(slot) =>
                    out[slot.sect][slot.key] = ToUppercase(e.s)
              /\ ResolveSucceeded =>
                    ResolvedAt(result.palette, slot) = ToUppercase(e.s)
              /\ ResolveFailed => idx # i

\* accents.w -> colors.dark.p -> colors.light.p -> "#1a2b3c" resolved to
\* "#1A2B3C", and the literal slot itself too.
C1_Witness ==
    /\ ResolveSucceeded
    /\ palette.accents[k_w] = PathRef(PathB)
    /\ palette.colors.dark[k_p] = PathRef(PathA)
    /\ palette.colors.light[k_p] = HexRef(Hx("1", "a", "2", "b", "3", "c"))
    /\ result.palette.accents[k_w] = Hx("1", "A", "2", "B", "3", "C")
    /\ result.palette.colors.light[k_p] = Hx("1", "A", "2", "B", "3", "C")

\* ---------------------------------------------------------------------- C2
HasCycle == \E i \in SlotIndexes : End(Order[i]).kind = "cycle"

\* Every slot before the one at which the run stopped has a good chain.
FirstFailure == \A j \in 1..(idx - 1) : GoodChain(Order[j])

\* The paths of the cycle a slot's chain runs into: the hops from the first
\* visit of the revisited path on.
CyclePaths(slot) ==
    LET h == Hops(palette, slot.cref, {})
        p == End(slot).path
        first == CHOOSE i \in 1..Len(h) : h[i] = p
    IN  {h[i] : i \in first..Len(h)}

\* C2 as claimed, on the palettes validate_palette accepted: every palette in
\* which some slot's chain revisits a path makes resolve_palette fail with
\* 'cycle detected'.
C2_Original ==
    (validated /\ ResolveReturned /\ HasCycle) =>
        (ResolveFailed /\ result.cause.kind = "Cycle")

\* C2 (amended): a palette in which some slot's chain revisits a path never
\* yields a ResolvedPalette; the run fails at the first slot in traversal
\* order whose chain fails, the error is 'cycle detected' exactly when that
\* slot's chain revisits a path, and the chain then names every path of the
\* cycle.
C2_CyclicPaletteFails ==
    (ResolveReturned /\ HasCycle) =>
        /\ ResolveFailed
        /\ FirstFailure
        /\ (End(Order[idx]).kind = "cycle") <=> (result.cause.kind = "Cycle")
        /\ result.cause.kind = "Cycle" =>
              \A p \in CyclePaths(Order[idx]) : Contains(result.cause.chain, p)

\* colors.light.p -> colors.dark.p -> colors.light.p: both paths are named.
C2_Witness ==
    /\ ResolveFailed
    /\ palette.colors.light[k_p] = PathRef(PathB)
    /\ palette.colors.dark[k_p] = PathRef(PathA)
    /\ result.cause = [kind |-> "Cycle", chain |-> <<PathB, PathA, PathB>>]

\* ---------------------------------------------------------------------- C3
HasMissing == \E i \in SlotIndexes : End(Order[i]).kind = "missing"

\* C3 as claimed, on the palettes validate_palette accepted: a reference, at
\* any depth, to a path that lookup does not find makes resolve_palette fail
\* with 'missing path' naming such a path.
C3_Original ==
    (validated /\ ResolveReturned /\ HasMissing) =>
        /\ ResolveFailed
        /\ result.cause.kind = "MissingPath"
        /\ \E i \in SlotIndexes :
              /\ End(Order[i]).kind = "missing"
              /\ End(Order[i]).path = result.cause.path

\* C3 (amended): a palette with a reference, at any depth, to a path that
\* does not exist or has none of the three shapes never resolves; the run
\* fails at the first slot in traversal order whose chain fails, and when
\* that slot's chain reaches such a path the error is 'missing path' naming
\* exactly that path; nothing is stored for the slot or memoized for the path.
C3_MissingPathFails ==
    (ResolveReturned /\ HasMissing) =>
        /\ ResolveFailed
        /\ FirstFailure
        /\ End(Order[idx]).kind = "missing" =>
              result.cause = [kind |-> "MissingPath", path |-> End(Order[idx]).path]
        /\ result.cause.kind = "MissingPath" =>
              /\ End(Order[idx]).kind = "missing"
              /\ ~lookup_color_ref(palette, result.cause.path).some
              /\ result.cause.path \notin DOMAIN memo
        /\ ~IsStored(Order[idx])

\* colors.light.p -> colors.dark.p -> colors.mid.p: the missing path is found
\* at depth two and is the one named.
C3_Witness ==
    /\ ResolveFailed
    /\ palette.colors.light[k_p] = PathRef(PathB)
    /\ palette.colors.dark[k_p] = PathRef(Dotted3(w_colors, <<"m", "i", "d">>, k_p))
    /\ stack = <<PathB>>
    /\ result.cause =
         [kind |-> "MissingPath", path |-> Dotted3(w_colors, <<"m", "i", "d">>, k_p)]

\* ---------------------------------------------------------------------- C4
Leaves(rp) ==
    {rp.colors.light[k] : k \in DOMAIN rp.colors.light}
    \cup {rp.colors.dark[k] : k \in DOMAIN rp.colors.dark}
    \cup {rp.accents[k] : k \in DOMAIN rp.accents}
    \cup {rp.ansi.light.normal[k] : k \in DOMAIN rp.ansi.light.normal}
    \cup {rp.ansi.light.bright[k] : k \in DOMAIN rp.ansi.light.bright}
    \cup {rp.ansi.dark.normal[k] : k \in DOMAIN rp.ansi.dark.normal}
    \cup {rp.ansi.dark.bright[k] : k \in DOMAIN rp.ansi.dark.bright}

SameShape(pal, rp) ==
    /\ DOMAIN rp.colors.light = DOMAIN pal.colors.light
    /\ DOMAIN rp.colors.dark = DOMAIN pal.colors.dark
    /\ DOMAIN rp.accents = DOMAIN pal.accents
    /\ DOMAIN rp.ansi.light.normal = AnsiColorSet
    /\ DOMAIN rp.ansi.light.bright = AnsiColorSet
    /\ DOMAIN rp.ansi.dark.normal = AnsiColorSet
    /\ DOMAIN rp.ansi.dark.bright = AnsiColorSet

\* C4: a ResolvedPalette returned by resolve_palette has the key sets of the
\* raw palette (colors.light, colors.dark, accents, the 32 ansi slots) and
\* every leaf is '#' followed by six uppercase hex digits.
C4_ResolvedShapeAndLeaves ==
    ResolveSucceeded =>
        /\ SameShape(palette, result.palette)
        /\ \A v \in Leaves(result.palette) : IsCanonicalHex(v)

\* A palette with a lowercase literal and a reference has been resolved.
C4_Witness ==
    /\ ResolveSucceeded
    /\ palette.colors.light[k_p] = HexRef(Hx("1", "a", "2", "b", "3", "c"))
    /\ palette.accents[k_w] = PathRef(PathA)
    /\ result.palette.ansi.dark.bright[w_magenta] = Hx("F", "F", "4", "4", "F", "F")

\* ---------------------------------------------------------------------- C5
Reverse(q) == [i \in 1..Len(q) |-> q[Len(q) + 1 - i]]

Rotate(q, k) == [i \in 1..Len(q) |-> q[((i - 1 + k) % Len(q)) + 1]]

\* Orders of the top-level slots other than the code's.
OtherOrders(q) == {Reverse(q), Rotate(q, 1), Rotate(q, 2), Rotate(Reverse(q), 3)}

SameOutcome(a, b) ==
    \/ a.kind = "Ok" /\ b.kind = "Ok" /\ a.palette = b.palette
    \/ a.kind = "Err" /\ b.kind = "Err"

\* C5: a run of resolve_palette over the slots in any other order (memo and
\* stack shared within the run) succeeds with the same ResolvedPalette as the
\* run in the code's order, or both fail.
C5_OrderIndependent ==
    ResolveReturned =>
        \A q \in OtherOrders(Order) :
            SameOutcome(result, resolve_palette(palette, q))

\* Fan-in and a chain: accents.w -> colors.dark.p -> colors.light.p and
\* ansi.light.normal.black -> accents.w, resolved in the code's order and in
\* reverse with the same result.
C5_Witness ==
    /\ ResolveSucceeded
    /\ palette.colors.dark[k_p] = PathRef(PathA)
    /\ palette.accents[k_w] = PathRef(PathB)
    /\ palette.ansi[w_light][w_normal][w_black] = PathRef(PathC)
    /\ resolve_palette(palette, Reverse(Order)).kind = "Ok"

\* ---------------------------------------------------------------------- C6
\* A resolved palette read as a raw palette: every value a literal.
AsLiterals(rp) ==
    [ colors |-> [ light |-> [k \in DOMAIN rp.colors.light |->
                                 HexRef(rp.colors.light[k])],
                   dark |-> [k \in DOMAIN rp.colors.dark |->
                                HexRef(rp.colors.dark[k])] ],
      accents |-> [k \in DOMAIN rp.accents |-> HexRef(rp.accents[k])],
      ansi |-> [ t \in {w_light, w_dark} |->
                 [ l \in {w_normal, w_bright} |->
                   LET row == IF t = w_light
                              THEN (IF l = w_normal THEN rp.ansi.light.normal
                                    ELSE rp.ansi.light.bright)
                              ELSE (IF l = w_normal THEN rp.ansi.dark.normal
                                    ELSE rp.ansi.dark.bright)
                   IN  [col \in DOMAIN row |-> HexRef(row[col])] ] ] ]

\* C6: resolving the output of a successful resolve_palette, every value
\* taken as a literal, returns the same ResolvedPalette; every literal slot
\* resolved to its own uppercase form, and normalizing a resolved value
\* changes nothing.
C6_Idempotent ==
    ResolveSucceeded =>
        LET again == AsLiterals(result.palette)
        IN  /\ resolve_palette(again, ResolveSlots(again)) = result
            /\ \A v \in Leaves(result.palette) : normalize_hex(v) = Ok(v)
            /\ \A i \in SlotIndexes :
                  Order[i].cref.tag = "Hex" =>
                      ResolvedAt(result.palette, Order[i])
                          = ToUppercase(Order[i].cref.s)

\* "#c0ffee" was resolved to "#C0FFEE", which normalizes to itself.
C6_Witness ==
    /\ ResolveSucceeded
    /\ palette.accents[k_w] = HexRef(Hx("c", "0", "f", "f", "e", "e"))
    /\ result.palette.accents[k_w] = Hx("C", "0", "F", "F", "E", "E")
    /\ normalize_hex(result.palette.accents[k_w]).val = result.palette.accents[k_w]

\* ---------------------------------------------------------------------- C7
WellFormed(cref) ==
    \/ cref.tag = "Hex" /\ IsMatchHex(cref.s)
    \/ cref.tag = "Path" /\ Contains(cref.s, ".")

\* Every color slot of a palette with its label.
AllSlots(pal) ==
    {[label |-> Dotted3(w_colors, w_light, k), cref |-> pal.colors.light[k]] :
        k \in DOMAIN pal.colors.light}
    \cup {[label |-> Dotted3(w_colors, w_dark, k), cref |-> pal.colors.dark[k]] :
            k \in DOMAIN pal.colors.dark}
    \cup {[label |-> Dotted2(w_accents, k), cref |-> pal.accents[k]] :
            k \in DOMAIN pal.accents}
    \cup {[label |-> Dotted4(w_ansi, q[1], q[2], q[3]),
           cref |-> pal.ansi[q[1]][q[2]][q[3]]] :
            q \in {w_light, w_dark} \X {w_normal, w_bright} \X AnsiColorSet}

ValidationError(e) ==
    [kind |-> IF e.cref.tag = "Hex" THEN "InvalidHexColor" ELSE "MalformedPath",
     label |-> e.label, value |-> e.cref.s]

\* C7: validate_palette accepts exactly the palettes all of whose slots
\* (colors.light, colors.dark, accents, the 32 ansi slots) are a literal of
\* the form #hhhhhh or a reference with a '.'; a rejection is the 'invalid
\* hex color' or 'must contain at least one . segment' error of an offending
\* slot, with that slot's label and value.
C7_ValidateAcceptsIffWellFormed ==
    (caller = "command" /\ pc # "load") =>
        /\ validated <=> \A e \in AllSlots(palette) : WellFormed(e.cref)
        /\ ~validated =>
              /\ pc = "done"
              /\ result.kind = "Err"
              /\ result.ctx = <<>>
              /\ \E e \in AllSlots(palette) :
                    ~WellFormed(e.cref) /\ result.cause = ValidationError(e)

\* The only offending slot is ansi.light.normal.black = "black".
C7_Witness ==
    /\ caller = "command"
    /\ pc = "done"
    /\ ~validated
    /\ result.cause = [kind |-> "MalformedPath", label |-> PathD, value |-> w_black]

\* ---------------------------------------------------------------------- C8
\* C8 as claimed: the reported chain starts and ends with the repeated path.
C8_Original ==
    (ResolveFailed /\ result.cause.kind = "Cycle") =>
        result.cause.chain[1] = Last(result.cause.chain)

\* C8 (amended): the reported chain is the whole in-progress stack, in
\* traversal order from the path the top-level slot refers to, followed by
\* the repeated path: each path of the chain refers to the next, the last
\* path occurs exactly once earlier in the chain (where the cycle starts)
\* and no other path occurs twice; the paths resolved before the cycle's
\* entry point precede it in the chain.
C8_CycleChainIsStackThenPath ==
    (ResolveFailed /\ result.cause.kind = "Cycle") =>
        LET ch == result.cause.chain
            n == Len(ch)
        IN  /\ ch = Append(stack, arg)
            /\ n >= 2
            /\ ch[1] = Order[idx].cref.s
            /\ \A i \in 1..(n - 1) :
                  lookup_color_ref(palette, ch[i]) = Some(PathRef(ch[i + 1]))
            /\ Cardinality({i \in 1..(n - 1) : ch[i] = ch[n]}) = 1
            /\ \A i, j \in 1..(n - 1) : i # j => ch[i] # ch[j]

\* colors.light.p -> colors.dark.p -> accents.w -> accents.w: the chain
\* starts with colors.dark.p, before the cycle's entry point accents.w.
C8_Witness ==
    /\ ResolveFailed
    /\ idx = 1
    /\ result.cause = [kind |-> "Cycle", chain |-> <<PathB, PathC, PathC>>]

\* ---------------------------------------------------------------------- C9
\* C9: every error resolve_palette returns is wrapped with the label of the
\* top-level slot that was being resolved.
C9_Original ==
    ResolveFailed =>
        /\ Len(result.ctx) >= 1
        /\ result.ctx[1].label = Order[idx].label

\* --------------------------------------------------------------------- C10
WorkedPaths == DOMAIN top_work \cup DOMAIN path_work

\* C10 as claimed, on the runs that succeed: counting the top-level pass
\* over a slot and every resolve_path of its path, a slot's value is computed
\* at most once.
C10_Original ==
    ResolveSucceeded =>
        \A p \in WorkedPaths : Count(top_work, p) + Count(path_work, p) <= 1

\* C10 (amended): within a run resolve_path looks up and computes each path
\* at most once, every memoized path having been computed exactly once and
\* every later resolve_path of it being served from the memo; the top-level
\* pass computes each slot once on its own account, without consulting or
\* filling the memo for the slot's own path, so a slot that is also
\* referenced is computed at most twice.
C10_PathComputedOnce ==
    /\ \A p \in DOMAIN path_work : path_work[p] = 1
    /\ \A p \in DOMAIN top_work : top_work[p] = 1
    /\ \A p \in DOMAIN memo : Count(path_work, p) = 1
    /\ (pc = "call" /\ arg \in DOMAIN memo) => ENABLED MemoHit

\* colors.light.p is a literal with fan-in two: accents.w and
\* ansi.light.normal.black both refer to it; resolve_path computed it once.
C10_Witness ==
    /\ ResolveSucceeded
    /\ palette.accents[k_w] = PathRef(PathA)
    /\ palette.ansi[w_light][w_normal][w_black] = PathRef(PathA)
    /\ path_work[PathA] = 1
    /\ top_work[PathA] = 1

\* --------------------------------------------------------------------- C11
\* a template helper was called with both arguments and is over
HelperCalled ==
    /\ pc = "rendered"
    /\ call.fn \in TemplateHelpers
    /\ call.color.some /\ call.alpha.some

ReturnedError == ~rendered.ok /\ "err" \in DOMAIN rendered

\* C11 as claimed: with_alpha, rgba, hsla and rgba_floats each return an
\* error, never a rendered string, when the color is not '#' and six hex
\* digits or the alpha lies outside [0.0, 1.0].
C11_Original ==
    (HelperCalled
        /\ (~IsMatchHex(call.color.val) \/ call.alpha.val < 0
              \/ call.alpha.val > AlphaDen))
        => ReturnedError

\* --------------------------------------------------------------------- C12
\* the value of a byte written as two uppercase hex digits
ByteOf(two) ==
    16 * ((CHOOSE i \in 1..16 : UpperHex[i] = two[1]) - 1)
        + ((CHOOSE i \in 1..16 : UpperHex[i] = two[2]) - 1)

\* k is an integer nearest to 255 * n / AlphaDen
IsNearest(k, n) ==
    LET d == 255 * n - k * AlphaDen
    IN  2 * (IF d < 0 THEN 0 - d ELSE d) <= AlphaDen

\* C12: for a color that is '#' and six hex digits, with_alpha returns, for
\* an alpha in [0.0, 1.0], the 9 characters '#', the six digits in uppercase
\* and two uppercase hex digits that are a nearest integer to alpha * 255
\* (00 for 0.0, FF for 1.0), and for an alpha below 0.0 or above 1.0 an
\* error.
C12_WithAlphaAppendsRoundedByte ==
    (HelperCalled /\ call.fn = "with_alpha" /\ IsMatchHex(call.color.val)) =>
        LET n == call.alpha.val
        IN  IF 0 <= n /\ n <= AlphaDen
            THEN /\ rendered.ok
                 /\ Len(rendered.val) = 9
                 /\ SubSeq(rendered.val, 1, 7) = ToUppercase(call.color.val)
                 /\ \A i \in 8..9 :
                       \E j \in 1..16 : UpperHex[j] = rendered.val[i]
                 /\ IsNearest(ByteOf(SubSeq(rendered.val, 8, 9)), n)
                 /\ n = 0 => SubSeq(rendered.val, 8, 9) = <<"0", "0">>
                 /\ n = AlphaDen => SubSeq(rendered.val, 8, 9) = <<"F", "F">>
            ELSE ReturnedError

\* a mixed-case color and an alpha whose 255-fold lies strictly between two
\* integers, nearer to the upper one
C12_Witness ==
    /\ HelperCalled
    /\ call.fn = "with_alpha"
    /\ call.color.val = Hx("a", "B", "c", "D", "e", "F")
    /\ 0 < call.alpha.val /\ call.alpha.val < AlphaDen
    /\ (255 * call.alpha.val) % AlphaDen # 0
    /\ 2 * ((255 * call.alpha.val) % AlphaDen) >= AlphaDen
    /\ rendered.ok
    /\ SubSeq(rendered.val, 1, 7) = Hx("A", "B", "C", "D", "E", "F")

\* --------------------------------------------------------------------- C13
\* C13 as claimed: hex_to_rgb returns the three base-16 channel values
\* exactly for '#' followed by six hex digits, and none, without failing
\* otherwise, for every other string.
C13_Original ==
    (pc = "rendered" /\ call.fn = "swatch") =>
        LET hex == call.color.val
        IN  hex_to_rgb(hex) =
                IF IsMatchHex(hex)
                THEN Some(<<16 * HexVal(hex[2]) + HexVal(hex[3]),
                            16 * HexVal(hex[4]) + HexVal(hex[5]),
                            16 * HexVal(hex[6]) + HexVal(hex[7])>>)
                ELSE None

\* --------------------------------------------------------------------- C14
\* C14 as claimed: every slot of the palette, under any user-defined key,
\* is found by lookup_color_ref at its dotted path, and a reference to that
\* path never ends in 'missing path'.
C14_Original ==
    /\ \A e \in AllSlots(palette) :
          lookup_color_ref(palette, e.label) = Some(e.cref)
    /\ (ResolveFailed /\ result.cause.kind = "MissingPath") =>
          \A e \in AllSlots(palette) : e.label # result.cause.path

\* --------------------------------------------------------------------- C15
Resolving == pc \in {"slot", "call", "match", "pop", "top"}

ResolveStarted == top_work # EmptyMap \/ memo # EmptyMap \/ out # EmptyOut

\* C15: in a command, validation precedes resolution and resolution precedes
\* consumption: nothing of resolve_palette has run while the palette is
\* being loaded or after validate_palette rejected it, resolve_palette runs
\* and returns only on a palette validate_palette accepted, and build
\* renders and writes (as check renders and show prints) only after
\* validation and resolution both succeeded.
C15_ValidateResolveConsume ==
    caller = "command" =>
        /\ pc = "load" => ~validated /\ ~ResolveStarted /\ result = NoResult
        /\ ~validated => ~Resolving /\ ~ResolveStarted /\ ~ResolveReturned
        /\ (Resolving \/ ResolveReturned) => validated
        /\ pc # "exit" => consumed = "nothing"
        /\ consumed # "nothing" =>
              /\ validated
              /\ validate_palette(palette).ok
              /\ result.kind = "Ok"
              /\ result = resolve_palette(palette, Order)

\* build wrote its files for a palette with a reference in it
C15_Witness ==
    /\ caller = "command"
    /\ consumed = "files written"
    /\ palette.colors.light[k_p] = PathRef(PathC)
    /\ result.kind = "Ok"

\* --------------------------------------------------------------------- C16
SectionOrder ==
    <<"colors_light", "colors_dark", "accents", "ansi_light_normal",
      "ansi_light_bright", "ansi_dark_normal", "ansi_dark_bright">>

Rank(seq, x) == CHOOSE i \in 1..Len(seq) : seq[i] = x

IsAnsiSection(sect) == Rank(SectionOrder, sect) > 3

\* C16: the order of a run is fixed when it starts: the top-level slots, every slot of the palette among them, are
\* resolved section after section in the order colors.light, colors.dark,
\* accents, ansi.light.normal, ansi.light.bright, ansi.dark.normal,
\* ansi.dark.bright, each row from black to white; the
\* slots resolved so far are exactly those before the current one; a run
\* that fails fails at the first slot whose chain does not end at a valid
\* literal, with that slot's error, resolves no later slot and returns no
\* ResolvedPalette; a run that succeeds had no such slot.
C16_FixedOrderFirstFailure ==
    /\ ~ResolveStarted =>
          /\ \A i \in SlotIndexes, j \in SlotIndexes :
                j = i + 1 =>
                  /\ Rank(SectionOrder, Order[i].sect)
                        <= Rank(SectionOrder, Order[j].sect)
                  /\ (Order[i].sect = Order[j].sect /\ IsAnsiSection(Order[i].sect))
                        => Rank(AnsiColors, Order[i].key)
                             < Rank(AnsiColors, Order[j].key)
          /\ {[label |-> Order[i].label, cref |-> Order[i].cref] : i \in SlotIndexes}
                = AllSlots(palette)
    /\ \A j \in SlotIndexes : IsStored(Order[j]) <=> j < idx
    /\ DOMAIN top_work \subseteq {Order[j].label : j \in {k \in SlotIndexes : k <= idx}}
    /\ ResolveFailed =>
          /\ idx \in SlotIndexes
          /\ FirstFailure
          /\ ~GoodChain(Order[idx])
          /\ DOMAIN result = {"kind", "ctx", "cause"}
          /\ IF Order[idx].cref.tag = "Hex"
             THEN result.cause = [kind |-> "InvalidHex", raw |-> Order[idx].cref.s]
             ELSE result.ctx = ResolvingCtx(Order[idx])
    /\ ResolveSucceeded => \A j \in SlotIndexes : GoodChain(Order[j])

\* colors.light.p resolved, colors.dark.p failed, accents.w (which would
\* fail too) never tried
C16_Witness ==
    /\ ResolveFailed
    /\ idx = 2
    /\ IsStored(Order[1])
    /\ Order[4].label = Dotted2(w_accents, k_w)
    /\ ~GoodChain(Order[4])
    /\ Order[4].label \notin DOMAIN top_work

\* --------------------------------------------------------------------- C17
\* C17: at every point of a run the stack holds pairwise distinct paths and
\* none of them is a key of the memo: a path is memoized only after it was
\* popped.
C17_StackDistinctNotMemoized ==
    /\ \A i, j \in 1..Len(stack) : i # j => stack[i] # stack[j]
    /\ \A i \in 1..Len(stack) : stack[i] \notin DOMAIN memo

\* two paths in progress while an earlier one is already memoized
C17_Witness ==
    /\ Len(stack) = 2
    /\ memo # EmptyMap
    /\ pc = "match"

\* --------------------------------------------------------------------- C18
FramePaths == [i \in 1..Len(frames) |-> frames[i].path]

MemoKept ==
    \A p \in DOMAIN memo : p \in DOMAIN memo' /\ memo'[p] = memo[p]

\* C18: pushes and pops balance: the stack is exactly the paths of the
\* resolve_path calls in progress, so a call that returns leaves it as it
\* found it and it is empty whenever resolve_palette turns to a top-level
\* slot or returns a ResolvedPalette; every memo entry is an uppercase
\* #RRGGBB value, and no step removes or changes an entry.
C18_StackBalancedMemoStable ==
    /\ [](/\ stack = FramePaths
          /\ pc \in {"load", "slot", "top"} => stack = <<>>
          /\ ResolveSucceeded => stack = <<>>
          /\ \A p \in DOMAIN memo : IsCanonicalHex(memo[p]))
    /\ [][MemoKept]_vars

\* between two top-level slots, with two paths memoized
C18_Witness ==
    /\ pc = "slot"
    /\ idx > 1
    /\ stack = <<>>
    /\ Cardinality(DOMAIN memo) >= 2

\* --------------------------------------------------------------------- C19
\* the slots lookup_color_ref finds at their dotted path, by their index
\* in the order of resolution (which lists every slot of the palette)
Addressable ==
    {i \in SlotIndexes :
        lookup_color_ref(palette, Order[i].label) = Some(Order[i].cref)}

\* the run is over: load_palette or resolve_palette has returned
Returned == pc = "done" /\ result # NoResult

\* The paths resolve_path may still push: those of slots that are neither
\* memoized nor in progress.
Unvisited ==
    {Order[i].label : i \in SlotIndexes}
        \ (DOMAIN memo \cup {stack[i] : i \in 1..Len(stack)})

PcRank ==
    CASE pc = "exit" -> 0
      [] pc = "done" -> 1
      [] pc = "top" -> 2
      [] pc = "pop" -> 3
      [] pc = "call" -> 4
      [] pc = "match" -> 5
      [] pc = "slot" -> 6
      [] OTHER -> 7

\* What is left of a run, most significant first: the top-level slots not
\* yet resolved, the paths not yet visited, the calls in progress, the
\* position within the current call.
Measure ==
    LET n == Len(Order) + 1
        slots == IF pc \in {"done", "exit"} THEN 0 ELSE Len(Order) + 1 - idx
        calls == IF pc \in {"done", "exit"} THEN 0 ELSE Len(frames)
        paths == IF pc \in {"done", "exit"} THEN 0 ELSE Cardinality(Unvisited)
    IN  PcRank + 8 * (calls + n * (paths + n * slots))

\* C19: every run of resolve_palette returns, with a ResolvedPalette or an
\* error, whatever the references of the palette: while it is resolving it
\* always has a next step, which is the one it takes, and every step makes
\* a natural number smaller, so there are only finitely many steps before
\* the return; until then every path on the stack is the path of an
\* addressable slot, so that the depth of the recursion never exceeds the
\* number of addressable slots.
C19_TerminatesWithinDepth ==
    /\ [](/\ Measure \in Nat
          /\ Resolving => Step(palette, Order, Run) # Run
          /\ pc = "done" => Returned
          /\ \A i \in 1..Len(stack) :
                \E k \in Addressable : Order[k].label = stack[i]
          /\ Len(stack) <= Cardinality(Addressable))
    /\ [][Measure' < Measure]_vars
    /\ [][Resolving => Run' = Step(palette, Order, Run)]_vars

\* a run over a chain of three references returned, all three memoized
C19_Witness ==
    /\ Returned
    /\ validated
    /\ result.kind = "Ok"
    /\ Cardinality(DOMAIN memo) = 3
    /\ \E p \in DOMAIN path_work : lookup_color_ref(palette, p).val.tag = "Path"

====
